---- MODULE Spec2Model ----
(***************************************************************************)
(* Model of the correlation notebook's distance pipeline                   *)
(* (src/11-Statistics.ipynb, Part I, Steps 5-9): ROI centroids, the        *)
(* pairwise distance matrix, the upper-triangular flattening and the       *)
(* arguments handed to the regression / correlation routines.              *)
(*                                                                         *)
(* Numbers are exact: a float is modelled by the real it stands for,       *)
(*   [k |-> "q",    n, d]   the rational n/d, d > 0, in lowest terms       *)
(*   [k |-> "sqrt", n, d]   the irrational square root of n/d              *)
(*   [k |-> "nan",  ...]    IEEE not-a-number                              *)
(* so equal reals have equal representations.  Rounding is not modelled.   *)
(***************************************************************************)
EXTENDS Integers, Sequences, FiniteSets, TLC

\* ------------------------------------------------------------------ bounds
\* At most MaxCells ROIs in a session.
MaxCells == 3
\* The field of view has rows 0..MaxRow and columns 0..MaxCol.
MaxRow == 4
MaxCol == 3

Height == MaxRow + 1
Width == MaxCol + 1

\* ----------------------------------------------------------------- numbers
RECURSIVE Gcd(_, _)
Gcd(a, b) == IF b = 0 THEN a ELSE Gcd(b, a % b)

Abs(a) == IF a < 0 THEN -a ELSE a

NaN == [k |-> "nan", n |-> 0, d |-> 1]

\* The rational n/d (d # 0), normalised.
Q(n, d) ==
    LET g == Gcd(Abs(n), Abs(d))
        s == IF d < 0 THEN -1 ELSE 1
    IN  [k |-> "q", n |-> (s * n) \div g, d |-> (s * d) \div g]

Zero == Q(0, 1)

IsNaN(a) == a.k = "nan"

\* Python's == on floats: never true of a NaN.
NumEq(a, b) == ~IsNaN(a) /\ ~IsNaN(b) /\ a = b

\* a - b, a + b, a**2 on rationals; NaN propagates.
Sub(a, b) == IF IsNaN(a) \/ IsNaN(b) THEN NaN ELSE Q(a.n * b.d - b.n * a.d, a.d * b.d)

Add(a, b) == IF IsNaN(a) \/ IsNaN(b) THEN NaN ELSE Q(a.n * b.d + b.n * a.d, a.d * b.d)

Pow2(a) == IF IsNaN(a) THEN NaN ELSE Q(a.n * a.n, a.d * a.d)

\* floor of the square root of a natural number
ISqrt(m) == CHOOSE r \in 0..m : r * r <= m /\ (r + 1) * (r + 1) > m

IsSquare(m) == ISqrt(m) * ISqrt(m) = m

\* np.sqrt: the non-negative root; NaN of a NaN or of a negative number.
sqrt(a) ==
    IF IsNaN(a) \/ a.n < 0 THEN NaN
    ELSE IF IsSquare(a.n) /\ IsSquare(a.d) THEN Q(ISqrt(a.n), ISqrt(a.d))
    ELSE [k |-> "sqrt", n |-> a.n, d |-> a.d]

RECURSIVE SumSeq(_)
SumSeq(s) == IF s = <<>> THEN 0 ELSE Head(s) + SumSeq(Tail(s))

\* np.mean of a 1-d integer array: sum / size; of an empty array NaN
\* (numpy warns and returns nan, it does not raise).
\* (Variant: an empty array averaged to 0 instead of NaN.)
mean_empty_zero(s) == IF Len(s) = 0 THEN Zero ELSE Q(SumSeq(s), Len(s))

mean(s) == IF Len(s) = 0 THEN NaN ELSE Q(SumSeq(s), Len(s))

\* np.zeros((n)) and np.zeros((n, n))
zeros1(n) == [a \in 0..(n - 1) |-> Zero]

zeros2(n) == [a \in 0..(n - 1) |-> [b \in 0..(n - 1) |-> Zero]]

\* ------------------------------------------------------------------- masks
\* A mask is a Height x Width grid of booleans, held as the set of the
\* positions <<row, column>> whose entry is true.
\* The masks of the model: every set of pixels among three corners of the
\* field of view, the empty mask included.
PixelPool == {<<0, 0>>, <<0, MaxCol>>, <<MaxRow, 0>>}

Masks == SUBSET PixelPool

\* np.where(mask): the row indices and the column indices of the true
\* entries, scanned in row-major order; [0] holds the rows, [1] the columns.
RECURSIVE whereFrom(_, _)
whereFrom(mask, p) ==
    IF p = Height * Width THEN [t \in 0..1 |-> <<>>]
    ELSE LET r == p \div Width
             c == p % Width
             rest == whereFrom(mask, p + 1)
         IN  IF <<r, c>> \in mask
             THEN [t \in 0..1 |-> IF t = 0 THEN <<r>> \o rest[0] ELSE <<c>> \o rest[1]]
             ELSE rest

where(mask) == whereFrom(mask, 0)

\* ---------------------------------------------------------------- Step 6
\* The centroid of one ROI as the loop body computes it:
\* loc_x[i] from the column indices ind[1], loc_y[i] from the row indices ind[0].
\* (Variant: loc_x taken from the row indices.)
centroid_x_rows(mask) == LET ind == where(mask) IN mean(ind[0])

centroid_x(mask) == LET ind == where(mask) IN mean(ind[1])

centroid_y(mask) == LET ind == where(mask) IN mean(ind[0])

\* The right-hand side of the assignment to distance[i, j].
\* (Variants: loc_x[j] for loc_y[j]; no square root; the x term alone;
\* a sum for the first difference; an undefined result replaced by 0.)
dist_mixed(lx, ly, a, b) ==
    sqrt(Add(Pow2(Sub(lx[a], lx[b])), Pow2(Sub(ly[a], lx[b]))))

dist_no_sqrt(lx, ly, a, b) ==
    Add(Pow2(Sub(lx[a], lx[b])), Pow2(Sub(ly[a], ly[b])))

dist_x_only(lx, ly, a, b) ==
    sqrt(Pow2(Sub(lx[a], lx[b])))

dist_plus(lx, ly, a, b) ==
    sqrt(Add(Pow2(Add(lx[a], lx[b])), Pow2(Sub(ly[a], ly[b]))))

dist_nan_to_zero(lx, ly, a, b) ==
    LET v == sqrt(Add(Pow2(Sub(lx[a], lx[b])), Pow2(Sub(ly[a], ly[b]))))
    IN  IF IsNaN(v) THEN Zero ELSE v

dist(lx, ly, a, b) ==
    sqrt(Add(Pow2(Sub(lx[a], lx[b])), Pow2(Sub(ly[a], ly[b]))))

\* ---------------------------------------------------------------- Step 8
\* np.triu_indices(n, k): the positions (r, c) of an n x n array with
\* c - r >= k, in row-major order; [0] holds the rows, [1] the columns.
RECURSIVE triuFrom(_, _, _)
triuFrom(n, k, p) ==
    IF p >= n * n THEN [t \in 0..1 |-> <<>>]
    ELSE LET r == p \div n
             c == p % n
             rest == triuFrom(n, k, p + 1)
         IN  IF c - r >= k
             THEN [t \in 0..1 |-> IF t = 0 THEN <<r>> \o rest[0] ELSE <<c>> \o rest[1]]
             ELSE rest

\* (Variants: the diagonal kept; the lower triangle; both triangles.)
triu_indices_with_diagonal(n, k) == triuFrom(n, k - 1, 0)

tril_indices(n, k) ==
    LET up == triuFrom(n, k, 0)
    IN  [t \in 0..1 |-> up[1 - t]]

triu_indices_both_triangles(n, k) ==
    LET up == triuFrom(n, k, 0)
    IN  [t \in 0..1 |-> up[t] \o up[1 - t]]

triu_indices(n, k) == triuFrom(n, k, 0)

\* M[idx[0], idx[1]]: numpy's integer-array indexing of a 2-d array, the
\* q-th value taken from row idx[0][q], column idx[1][q].
index2(M, idx) == [q \in 1..Len(idx[0]) |-> M[idx[0][q]][idx[1][q]]]

\* ---------------------------------------------------------------- Step 9
\* The second argument of linregress and of pearsonr: sc[inds[0], inds[1]].
\* (Variant: sc flattened with its diagonal kept.)
sc_vector_with_diagonal(m, idx) ==
    index2(m, triu_indices(Cardinality(DOMAIN m), 0))

sc_vector(m, idx) == index2(m, idx)

\* ------------------------------------------------------------------- state
VARIABLES
    rois,             \* dataset.get_roi_mask_array(): rois[i] is the mask of ROI i
    sc,               \* ns.signal_correlation
    num_cells, loc_x, loc_y, distance,
    i, j,             \* the loop counters of the Step 6 cell
    inds, distance_vector,
    lr_x, lr_y,       \* the arguments of sp.stats.linregress
    pr_x, pr_y,       \* the arguments of sp.stats.pearsonr
    pc                \* the position in Steps 5-9 of Part I

pipeVars == <<rois, sc, num_cells, loc_x, loc_y, distance, i, j, inds,
              distance_vector, lr_x, lr_y, pr_x, pr_y, pc>>

\* The linear association step on its own: two sequences handed to
\* sp.stats.linregress and then to sp.stats.pearsonr.
VARIABLES
    reg_x, reg_y,     \* the two input sequences
    slope, intercept, r_value, p_value,
    pearsons_r,
    raised,           \* the exception that ended the cell, "" for none
    reg_pc

regVars == <<reg_x, reg_y, slope, intercept, r_value, p_value, pearsons_r,
             raised, reg_pc>>

\* Part Three and Part Four: the central-limit cell, the skewed-distribution
\* cell and the t-test cell.  ax_a is the loop variable "a"; ax_hist[a] and
\* ax_title[a] are what subplot a shows; axvlines is the list of vertical
\* lines drawn; ttest is the call made to stats.ttest_1samp.  means_sizes
\* is a history variable: for the entries now in sample_means, in order, the
\* sample size they were computed with and how many they are.
VARIABLES
    ax_a, sample_size, sample_means, means_sizes, ax_hist, ax_title,
    skewed_pop, skewed_sample, pop_stats, sample_stats, hists, axvlines, legend,
    sample_mean, sample_pop, ttest,
    stat_pc

statVars == <<ax_a, sample_size, sample_means, means_sizes, ax_hist, ax_title,
              skewed_pop, skewed_sample, pop_stats, sample_stats, hists,
              axvlines, legend, sample_mean, sample_pop, ttest, stat_pc>>

\* The session-selection loop of the Neuropixels part.
VARIABLES sessions, session_list, idx, printed, sess_pc

sessVars == <<sessions, session_list, idx, printed, sess_pc>>

\* The cross-correlation of two spike trains and its time-shift axis.
VARIABLES
    spike_train_1_drift, spike_train_2_drift, xcorr_drift, time_shift_drift,
    plotted, xc_pc

xcVars == <<spike_train_1_drift, spike_train_2_drift, xcorr_drift,
            time_shift_drift, plotted, xc_pc>>

vars == <<pipeVars, regVars, statVars, sessVars, xcVars>>

\* What the cells of one part leave alone: the variables of the other parts.
notPipe == <<regVars, statVars, sessVars, xcVars>>

notReg == <<pipeVars, statVars, sessVars, xcVars>>

notStat == <<pipeVars, regVars, sessVars, xcVars>>

notSess == <<pipeVars, regVars, statVars, xcVars>>

notXc == <<pipeVars, regVars, statVars, sessVars>>

\* A part that is not run: its variables keep these values.
PipeIdle ==
    /\ rois = <<>> /\ sc = <<>> /\ num_cells = 0
    /\ loc_x = <<>> /\ loc_y = <<>> /\ distance = <<>>
    /\ i = 0 /\ j = 0
    /\ inds = [t \in 0..1 |-> <<>>]
    /\ distance_vector = <<>>
    /\ lr_x = <<>> /\ lr_y = <<>> /\ pr_x = <<>> /\ pr_y = <<>>
    /\ pc = "off"

RegIdle ==
    /\ reg_x = <<>> /\ reg_y = <<>>
    /\ slope = NaN /\ intercept = NaN /\ r_value = NaN /\ p_value = "unset"
    /\ pearsons_r = NaN
    /\ raised = ""
    /\ reg_pc = "off"

NoArray == [size |-> 0, sum |-> 0]

NoStats == [nobs |-> 0, mean |-> NaN]

StatIdle ==
    /\ ax_a = 0 /\ sample_size = 0 /\ sample_means = <<>> /\ means_sizes = <<>>
    /\ ax_hist = <<>> /\ ax_title = <<>>
    /\ skewed_pop = NoArray /\ skewed_sample = NoArray
    /\ pop_stats = NoStats /\ sample_stats = NoStats
    /\ hists = <<>> /\ axvlines = <<>> /\ legend = <<>>
    /\ sample_mean = 0 /\ sample_pop = NoArray /\ ttest = <<>>
    /\ stat_pc = "off"

SessIdle ==
    /\ sessions = <<>> /\ session_list = <<>> /\ idx = 0 /\ printed = <<>>
    /\ sess_pc = "off"

XcIdle ==
    /\ spike_train_1_drift = <<>> /\ spike_train_2_drift = <<>>
    /\ xcorr_drift = <<>> /\ time_shift_drift = <<>> /\ plotted = <<>>
    /\ xc_pc = "off"

Min(a, b) == IF a < b THEN a ELSE b

Max(a, b) == IF a < b THEN b ELSE a

\* The signal-correlation matrices of the model: symmetric n x n, either
\* constant (s = 0) or with a different value for every unordered pair.
ScSteps == {0, 1}

ScMatrices(n) ==
    {[a \in 0..(n - 1) |-> [b \in 0..(n - 1) |->
        Q(s * (Min(a, b) * n + Max(a, b)), 100)]] : s \in ScSteps}

\* After Step 5: the masks and the signal correlations are loaded, nothing
\* of Steps 6-9 has run.
Init ==
    /\ \E n \in 0..MaxCells :
          /\ rois \in [0..(n - 1) -> Masks]
          /\ sc \in ScMatrices(n)
    /\ num_cells = 0
    /\ loc_x = <<>>
    /\ loc_y = <<>>
    /\ distance = <<>>
    /\ i = 0
    /\ j = 0
    /\ inds = [t \in 0..1 |-> <<>>]
    /\ distance_vector = <<>>
    /\ lr_x = <<>> /\ lr_y = <<>> /\ pr_x = <<>> /\ pr_y = <<>>
    /\ pc = "step6"
    /\ RegIdle /\ StatIdle /\ SessIdle /\ XcIdle

\* num_cells = rois.shape[0]; loc_x = np.zeros(...); loc_y = np.zeros(...)
Step6Begin ==
    /\ pc = "step6"
    /\ num_cells' = Cardinality(DOMAIN rois)
    /\ loc_x' = zeros1(num_cells')
    /\ loc_y' = zeros1(num_cells')
    /\ i' = 0
    /\ pc' = "centroids"
    /\ UNCHANGED <<rois, sc, distance, j, inds, distance_vector,
                   lr_x, lr_y, pr_x, pr_y>>
    /\ UNCHANGED notPipe

\* "for i in range(num_cells)": another pass, or the loop is over.
CentroidLoopGoesOn == pc = "centroids" /\ i < num_cells

CentroidLoopOver == pc = "centroids" /\ i = num_cells

\* One pass of "for i in range(num_cells)": the centroid of ROI i.
CentroidStep ==
    /\ CentroidLoopGoesOn
    /\ loc_x' = [loc_x EXCEPT ![i] = centroid_x(rois[i])]
    /\ loc_y' = [loc_y EXCEPT ![i] = centroid_y(rois[i])]
    /\ i' = i + 1
    /\ UNCHANGED <<rois, sc, num_cells, distance, j, inds, distance_vector,
                   lr_x, lr_y, pr_x, pr_y, pc>>
    /\ UNCHANGED notPipe

\* The centroid loop is over: distance = np.zeros((num_cells, num_cells)).
DistanceBegin ==
    /\ CentroidLoopOver
    /\ distance' = zeros2(num_cells)
    /\ i' = 0
    /\ j' = 0
    /\ pc' = "distances"
    /\ UNCHANGED <<rois, sc, num_cells, loc_x, loc_y, inds, distance_vector,
                   lr_x, lr_y, pr_x, pr_y>>
    /\ UNCHANGED notPipe

\* (Variant: the inner loop started at the diagonal, "range(i, num_cells)".)
DistanceStep_from_diagonal ==
    /\ pc = "distances"
    /\ i < num_cells
    /\ j < num_cells
    /\ distance' = [distance EXCEPT ![i][j] = dist(loc_x, loc_y, i, j)]
    /\ IF j + 1 < num_cells
       THEN i' = i /\ j' = j + 1
       ELSE i' = i + 1 /\ j' = IF i + 1 < num_cells THEN i + 1 ELSE 0
    /\ UNCHANGED <<rois, sc, num_cells, loc_x, loc_y, inds, distance_vector,
                   lr_x, lr_y, pr_x, pr_y, pc>>
    /\ UNCHANGED notPipe

\* One pass of the inner loop: distance[i, j] = np.sqrt(...).
DistanceStep ==
    /\ pc = "distances"
    /\ i < num_cells
    /\ j < num_cells
    /\ distance' = [distance EXCEPT ![i][j] = dist(loc_x, loc_y, i, j)]
    /\ IF j + 1 < num_cells
       THEN i' = i /\ j' = j + 1
       ELSE i' = i + 1 /\ j' = 0
    /\ UNCHANGED <<rois, sc, num_cells, loc_x, loc_y, inds, distance_vector,
                   lr_x, lr_y, pr_x, pr_y, pc>>
    /\ UNCHANGED notPipe

\* The double loop is over.
DistanceEnd ==
    /\ pc = "distances"
    /\ i = num_cells
    /\ pc' = "step8"
    /\ UNCHANGED <<rois, sc, num_cells, loc_x, loc_y, distance, i, j, inds,
                   distance_vector, lr_x, lr_y, pr_x, pr_y>>
    /\ UNCHANGED notPipe

\* (Variant: the lower triangle of distance cleared in place.)
Step8_clears_lower ==
    /\ pc = "step8"
    /\ inds' = triu_indices(num_cells, 1)
    /\ distance' = [a \in DOMAIN distance |-> [b \in DOMAIN distance |->
                        IF b < a THEN Zero ELSE distance[a][b]]]
    /\ distance_vector' = index2(distance', inds')
    /\ pc' = "step9"
    /\ UNCHANGED <<rois, sc, num_cells, loc_x, loc_y, i, j,
                   lr_x, lr_y, pr_x, pr_y>>
    /\ UNCHANGED notPipe

\* inds = np.triu_indices(num_cells, k=1); distance_vector = distance[inds[0], inds[1]]
Step8 ==
    /\ pc = "step8"
    /\ inds' = triu_indices(num_cells, 1)
    /\ distance_vector' = index2(distance, inds')
    /\ pc' = "step9"
    /\ UNCHANGED <<rois, sc, num_cells, loc_x, loc_y, distance, i, j,
                   lr_x, lr_y, pr_x, pr_y>>
    /\ UNCHANGED notPipe

\* linregress(distance_vector, sc[inds[0], inds[1]]) and
\* pearsonr(distance_vector, sc[inds[0], inds[1]])
Step9 ==
    /\ pc = "step9"
    /\ lr_x' = distance_vector
    /\ lr_y' = sc_vector(sc, inds)
    /\ pr_x' = distance_vector
    /\ pr_y' = sc_vector(sc, inds)
    /\ pc' = "done"
    /\ UNCHANGED <<rois, sc, num_cells, loc_x, loc_y, distance, i, j, inds,
                   distance_vector>>
    /\ UNCHANGED notPipe

Next ==
    \/ Step6Begin
    \/ CentroidStep
    \/ DistanceBegin
    \/ DistanceStep
    \/ DistanceEnd
    \/ Step8
    \/ Step9

Spec == Init /\ [][Next]_vars

\* ------------------------------------------- the linear association step
\* Bounds of the input sequences: at most MaxLen values each,
\* x[q] = 1 + xs*(q-1) with xs in 0..MaxXStep,
\* y[q] = yb + ys*q (+ bump at q = 2) with ys in -1..MaxYStep, bump in 0..MaxBump.
MaxLen == 5
MaxXStep == 1
MaxYStep == 2
MaxBump == 1

YBases == {0, 5}

\* a * b and a / b on rationals; 0/0 is NaN as in float division.
Mul(a, b) == IF IsNaN(a) \/ IsNaN(b) THEN NaN ELSE Q(a.n * b.n, a.d * b.d)

Div(a, b) ==
    IF IsNaN(a) \/ IsNaN(b) \/ b.n = 0 THEN NaN ELSE Q(a.n * b.d, a.d * b.n)

\* a / sqrt(b) for rationals a and b > 0: a rational when b is a square,
\* otherwise the irrational of the sign of a whose square is a*a/b
\* ("sqrt" positive, "nsqrt" negative).
DivSqrt(a, b) ==
    LET root == sqrt(b)
    IN  IF IsNaN(a) \/ IsNaN(root) THEN NaN
        ELSE IF root.k = "q" THEN Div(a, root)
        ELSE IF a.n = 0 THEN Zero
        ELSE LET sq == Div(Mul(a, a), b)
             IN  [k |-> IF a.n > 0 THEN "sqrt" ELSE "nsqrt", n |-> sq.n, d |-> sq.d]

RECURSIVE SumNum(_)
SumNum(s) == IF s = <<>> THEN Zero ELSE Add(Head(s), SumNum(Tail(s)))

\* The mean of a sequence of numbers (NaN of an empty one).
MeanNum(s) == Div(SumNum(s), Q(Len(s), 1))

\* np.cov(x, y, bias=1) entry: the mean of the products of the deviations.
Cov(s, t) ==
    MeanNum([q \in 1..Len(s) |-> Mul(Sub(s[q], MeanNum(s)), Sub(t[q], MeanNum(t)))])

IsConstant(s) == \A q \in 1..Len(s) : s[q] = s[1]

\* The p-value, kept as the case it falls in: "one" (r = 0), "near_zero"
\* (|r| = 1), "between", or "nan".
PValueOf(r) ==
    IF IsNaN(r) THEN "nan"
    ELSE IF r = Zero THEN "one"
    ELSE IF r.k = "q" /\ Abs(r.n) = r.d THEN "near_zero"
    ELSE "between"

LinregressResult(e, sl, ic, r) ==
    [raised |-> e, slope |-> sl, intercept |-> ic, r_value |-> r,
     p_value |-> IF e = "" THEN PValueOf(r) ELSE "unset"]

\* What linregress computes when it does not raise.
linregress_computed(xs, ys) ==
    LET ssxm == Cov(xs, xs)
        ssxym == Cov(xs, ys)
        ssym == Cov(ys, ys)
        r == IF IsNaN(ssxm) THEN NaN
             ELSE IF ssxm = Zero \/ ssym = Zero THEN Zero
             ELSE DivSqrt(ssxym, Mul(ssxm, ssym))
        sl == Div(ssxym, ssxm)
        ic == Sub(MeanNum(ys), Mul(sl, MeanNum(xs)))
    IN  LinregressResult("", sl, ic, r)

\* (Variants: slope as Sxy/Syy; a refusal of any input without variance.)
linregress_slope_over_syy(xs, ys) ==
    LET c == linregress_computed(xs, ys)
        sl == Div(Cov(xs, ys), Cov(ys, ys))
    IN  {LinregressResult("", sl, Sub(MeanNum(ys), Mul(sl, MeanNum(xs))), c.r_value)}

linregress_rejects_constant(xs, ys) ==
    IF Len(xs) < 2 \/ IsConstant(xs) \/ IsConstant(ys)
    THEN {LinregressResult("DegenerateInputError", NaN, NaN, NaN)}
    ELSE {linregress_computed(xs, ys)}

\* sp.stats.linregress(x, y) for sequences of equal length: the outcomes it
\* can have.  Empty input, and several identical x values, raise ValueError
\* in current SciPy and gave undefined results in older releases; both
\* outcomes are kept.
linregress(xs, ys) ==
    IF Len(xs) = 0 \/ (Len(xs) > 1 /\ IsConstant(xs))
    THEN {LinregressResult("ValueError", NaN, NaN, NaN), linregress_computed(xs, ys)}
    ELSE {linregress_computed(xs, ys)}

\* sp.stats.pearsonr(x, y): fewer than two values raise ValueError in
\* current SciPy and gave NaN in older releases; a constant input gives NaN
\* (with a warning).
pearsonr(xs, ys) ==
    IF Len(xs) < 2
    THEN {[raised |-> "ValueError", r |-> NaN], [raised |-> "", r |-> NaN]}
    ELSE IF IsConstant(xs) \/ IsConstant(ys) THEN {[raised |-> "", r |-> NaN]}
    ELSE {[raised |-> "", r |-> DivSqrt(Cov(xs, ys), Mul(Cov(xs, xs), Cov(ys, ys)))]}

\* The input sequences of the model.
XSeq(n, xs) == [q \in 1..n |-> Q(1 + xs * (q - 1), 1)]

YSeq(n, yb, ys, bump) ==
    [q \in 1..n |-> Q(yb + ys * q + (IF q = 2 THEN bump ELSE 0), 1)]

RegInit ==
    /\ \E n \in 0..MaxLen, xs \in 0..MaxXStep, yb \in YBases,
          ys \in (-1)..MaxYStep, bump \in 0..MaxBump :
          /\ reg_x = XSeq(n, xs)
          /\ reg_y = YSeq(n, yb, ys, bump)
    /\ slope = NaN /\ intercept = NaN /\ r_value = NaN /\ p_value = "unset"
    /\ pearsons_r = NaN
    /\ raised = ""
    /\ reg_pc = "linregress"
    /\ PipeIdle /\ StatIdle /\ SessIdle /\ XcIdle

\* slope, intercept, r_value, p_value, std_err = sp.stats.linregress(x, y)
Linregress ==
    /\ reg_pc = "linregress"
    /\ \E o \in linregress(reg_x, reg_y) :
          /\ raised' = o.raised
          /\ slope' = o.slope
          /\ intercept' = o.intercept
          /\ r_value' = o.r_value
          /\ p_value' = o.p_value
          /\ reg_pc' = IF o.raised = "" THEN "pearsonr" ELSE "raised"
    /\ UNCHANGED <<reg_x, reg_y, pearsons_r>>
    /\ UNCHANGED notReg

\* pearsons_r, pearsons_p = sp.stats.pearsonr(x, y)
Pearsonr ==
    /\ reg_pc = "pearsonr"
    /\ \E o \in pearsonr(reg_x, reg_y) :
          /\ raised' = o.raised
          /\ pearsons_r' = o.r
          /\ reg_pc' = IF o.raised = "" THEN "done" ELSE "raised"
    /\ UNCHANGED <<reg_x, reg_y, slope, intercept, r_value, p_value>>
    /\ UNCHANGED notReg

RegNext ==
    \/ Linregress
    \/ Pearsonr

RegSpec == RegInit /\ [][RegNext]_vars

\* ------------------------------------------------- the statistics cells
\* Each of the three cells assigns every name it reads, so each is run here
\* from the state after the imports.

\* Random draws are one of MaxDraw + 1 patterns; a drawn array of the skew
\* and t-test cells has one of 2 * MaxLevel + 1 sums.
MaxDraw == 1

MaxLevel == 2

\* plt.subplots(1, 5, ...): len(ax).
NumSubplots == 5

\* "for x in range(10000)".
NumMeans == 10000

pop_size == 10000

skew_sample_size == 100

\* np.random.normal(sample_mean, sample_sigma, 20)
ttest_size == 20

\* The second argument of stats.ttest_1samp(sample_pop, 1).
ttest_popmean == 1

\* "our null hypothesis is that the mean of our sample distribution is equal to 3"
stated_null_mean == 3

\* np.mean(np.random.normal(mu, 10, sample_size)) for draw k of pattern d,
\* with mu = 0.
DrawnMean(d, k) == ((k + d) % 3) - 1

\* The 10000 passes of the inner loop: each appends one mean to the list.
Appended(list, d) == list \o [k \in 1..NumMeans |-> DrawnMean(d, k)]

\* The history of a list after an assignment: the entries added are of the
\* sample size in use, an emptied list has no history.
History(old_list, new_list, old_sizes, size) ==
    IF new_list = <<>> THEN <<>>
    ELSE IF Len(new_list) > Len(old_list)
         THEN Append(old_sizes, [size |-> size,
                                 count |-> Len(new_list) - Len(old_list)])
         ELSE old_sizes

RECURSIVE SumMeans(_, _, _)
SumMeans(list, lo, hi) ==
    IF lo > hi THEN 0
    ELSE IF lo = hi THEN list[lo]
    ELSE LET mid == (lo + hi) \div 2
         IN  SumMeans(list, lo, mid) + SumMeans(list, mid + 1, hi)

\* Rounding n/d (d > 0) to the nearest integer, halves to the even one.
RoundHalfEven(n, d) ==
    LET q == n \div d
        r == n % d
    IN  IF 2 * r < d THEN q
        ELSE IF 2 * r > d THEN q + 1
        ELSE IF q % 2 = 0 THEN q ELSE q + 1

\* np.round(np.mean(sample_means), 3)
RoundedMean(list) ==
    IF Len(list) = 0 THEN NaN
    ELSE Q(RoundHalfEven(1000 * SumMeans(list, 1, Len(list)), Len(list)), 1000)

\* fig, ax = plt.subplots(1, 5, ...); mu = 0; sample_means = []
CltBegin ==
    /\ stat_pc = "clt"
    /\ ax_hist' = [t \in 0..(NumSubplots - 1) |-> <<>>]
    /\ ax_title' = [t \in 0..(NumSubplots - 1) |-> <<>>]
    /\ sample_means' = <<>>
    /\ means_sizes' = <<>>
    /\ ax_a' = 0
    /\ stat_pc' = "clt_loop"
    /\ UNCHANGED <<sample_size, skewed_pop, skewed_sample, pop_stats,
                   sample_stats, hists, axvlines, legend, sample_mean,
                   sample_pop, ttest>>
    /\ UNCHANGED notStat

\* "for a in range(len(ax))": sample_size = 3**(a+1), then the inner loop.
CltSample ==
    /\ stat_pc = "clt_loop"
    /\ ax_a < NumSubplots
    /\ sample_size' = 3 ^ (ax_a + 1)
    /\ \E d \in 0..MaxDraw :
          sample_means' = Appended(sample_means, d)
    /\ means_sizes' = History(sample_means, sample_means', means_sizes, sample_size')
    /\ stat_pc' = "clt_plot"
    /\ UNCHANGED <<ax_a, ax_hist, ax_title, skewed_pop, skewed_sample,
                   pop_stats, sample_stats, hists, axvlines, legend,
                   sample_mean, sample_pop, ttest>>
    /\ UNCHANGED notStat

\* (Variant: the list is not reset at the end of the pass.)
CltPlot_no_reset ==
    /\ stat_pc = "clt_plot"
    /\ ax_hist' = [ax_hist EXCEPT ![ax_a] = [data |-> sample_means, of |-> means_sizes]]
    /\ ax_title' = [ax_title EXCEPT ![ax_a] =
                       [sample_size |-> sample_size, mean |-> RoundedMean(sample_means)]]
    /\ sample_means' = sample_means
    /\ means_sizes' = History(sample_means, sample_means', means_sizes, sample_size)
    /\ ax_a' = ax_a + 1
    /\ stat_pc' = "clt_loop"
    /\ UNCHANGED <<sample_size, skewed_pop, skewed_sample, pop_stats,
                   sample_stats, hists, axvlines, legend, sample_mean,
                   sample_pop, ttest>>
    /\ UNCHANGED notStat

\* ax[a].hist(sample_means, ...); ax[a].set_title(...); sample_means = []
CltPlot ==
    /\ stat_pc = "clt_plot"
    /\ ax_hist' = [ax_hist EXCEPT ![ax_a] = [data |-> sample_means, of |-> means_sizes]]
    /\ ax_title' = [ax_title EXCEPT ![ax_a] =
                       [sample_size |-> sample_size, mean |-> RoundedMean(sample_means)]]
    /\ sample_means' = <<>>
    /\ means_sizes' = History(sample_means, sample_means', means_sizes, sample_size)
    /\ ax_a' = ax_a + 1
    /\ stat_pc' = "clt_loop"
    /\ UNCHANGED <<sample_size, skewed_pop, skewed_sample, pop_stats,
                   sample_stats, hists, axvlines, legend, sample_mean,
                   sample_pop, ttest>>
    /\ UNCHANGED notStat

\* The range is used up: plt.suptitle(...); plt.show()
CltEnd ==
    /\ stat_pc = "clt_loop"
    /\ ax_a = NumSubplots
    /\ stat_pc' = "done"
    /\ UNCHANGED <<ax_a, sample_size, sample_means, means_sizes, ax_hist, ax_title,
                   skewed_pop, skewed_sample, pop_stats, sample_stats, hists,
                   axvlines, legend, sample_mean, sample_pop, ttest>>
    /\ UNCHANGED notStat

\* A drawn array is kept as its length and the sum of its values.  The sums
\* lie around size * centre2 / 2, centre2 being twice the distribution's mean.
Drawn(size, centre2) ==
    {[size |-> size, sum |-> (size * (centre2 + l)) \div 2] :
        l \in (0 - MaxLevel)..MaxLevel}

\* stats.describe(a): the number of observations and the mean.
describe(arr) == [nobs |-> arr.size, mean |-> Q(arr.sum, arr.size)]

\* pop_size = 10000; sample_size = 100; the two np.random.gamma(7.5, 1, .) draws
SkewDraw ==
    /\ stat_pc = "skew"
    /\ sample_size' = skew_sample_size
    /\ skewed_pop' \in Drawn(pop_size, 15)
    /\ skewed_sample' \in Drawn(sample_size', 15)
    /\ stat_pc' = "skew_stats"
    /\ UNCHANGED <<ax_a, sample_means, means_sizes, ax_hist, ax_title, pop_stats,
                   sample_stats, hists, axvlines, legend, sample_mean,
                   sample_pop, ttest>>
    /\ UNCHANGED notStat

\* pop_stats = stats.describe(skewed_sample); sample_stats = stats.describe(skewed_pop)
SkewDescribe ==
    /\ stat_pc = "skew_stats"
    /\ pop_stats' = describe(skewed_sample)
    /\ sample_stats' = describe(skewed_pop)
    /\ stat_pc' = "skew_plot"
    /\ UNCHANGED <<ax_a, sample_size, sample_means, means_sizes, ax_hist, ax_title,
                   skewed_pop, skewed_sample, hists, axvlines, legend,
                   sample_mean, sample_pop, ttest>>
    /\ UNCHANGED notStat

\* The two plt.hist calls (default colour cycle: blue, then orange), the two
\* plt.axvline calls and plt.legend(['Population','Sample']).
SkewPlot ==
    /\ stat_pc = "skew_plot"
    /\ hists' = <<[data |-> skewed_pop, color |-> "blue"],
                  [data |-> skewed_sample, color |-> "orange"]>>
    /\ axvlines' = <<[at |-> pop_stats.mean, color |-> "blue"],
                     [at |-> sample_stats.mean, color |-> "orange"]>>
    /\ legend' = <<"Population", "Sample">>
    /\ stat_pc' = "done"
    /\ UNCHANGED <<ax_a, sample_size, sample_means, means_sizes, ax_hist, ax_title,
                   skewed_pop, skewed_sample, pop_stats, sample_stats,
                   sample_mean, sample_pop, ttest>>
    /\ UNCHANGED notStat

\* sample_mean, sample_sigma = 3, 2; sample_pop = np.random.normal(3, 2, 20)
TtestDraw ==
    /\ stat_pc = "ttest"
    /\ sample_mean' = 3
    /\ sample_pop' \in Drawn(ttest_size, 2 * sample_mean')
    /\ stat_pc' = "ttest_call"
    /\ UNCHANGED <<ax_a, sample_size, sample_means, means_sizes, ax_hist, ax_title,
                   skewed_pop, skewed_sample, pop_stats, sample_stats, hists,
                   axvlines, legend, ttest>>
    /\ UNCHANGED notStat

\* The sign of the t statistic: that of mean(a) - popmean.
TSign(arr, popmean) ==
    IF arr.sum > popmean * arr.size THEN 1
    ELSE IF arr.sum < popmean * arr.size THEN -1 ELSE 0

\* stats.ttest_1samp(sample_pop, 1)
TtestCall ==
    /\ stat_pc = "ttest_call"
    /\ ttest' = <<[a |-> sample_pop, popmean |-> ttest_popmean,
                   sign |-> TSign(sample_pop, ttest_popmean)]>>
    /\ stat_pc' = "done"
    /\ UNCHANGED <<ax_a, sample_size, sample_means, means_sizes, ax_hist, ax_title,
                   skewed_pop, skewed_sample, pop_stats, sample_stats, hists,
                   axvlines, legend, sample_mean, sample_pop>>
    /\ UNCHANGED notStat

\* One of the three cells is run.
StatInit ==
    /\ ax_a = 0 /\ sample_size = 0 /\ sample_means = <<>> /\ means_sizes = <<>>
    /\ ax_hist = <<>> /\ ax_title = <<>>
    /\ skewed_pop = NoArray /\ skewed_sample = NoArray
    /\ pop_stats = NoStats /\ sample_stats = NoStats
    /\ hists = <<>> /\ axvlines = <<>> /\ legend = <<>>
    /\ sample_mean = 0 /\ sample_pop = NoArray /\ ttest = <<>>
    /\ stat_pc \in {"clt", "skew", "ttest"}
    /\ PipeIdle /\ RegIdle /\ SessIdle /\ XcIdle

StatNext ==
    \/ CltBegin
    \/ CltSample
    \/ CltPlot
    \/ CltEnd
    \/ SkewDraw
    \/ SkewDescribe
    \/ SkewPlot
    \/ TtestDraw
    \/ TtestCall

StatSpec == StatInit /\ [][StatNext]_vars

\* ------------------------------------------------- the session selection
MaxSessions == 3

visual_area == "VISp"

\* The values of the column 'ecephys_structure_acronyms': lists of acronyms.
\* "VISpm" holds "VISp" as a substring and is another structure.
AcronymLists ==
    {<<>>, <<"VISp">>, <<"CA1", "VISpm">>, <<"CA1", "VISp", "VISpm">>}

\* The index label of the row at position k (0-based): the labels of a
\* session table are distinct ids, in no order of size.
LabelAt(k) == 1000 - 7 * k

Range(seq) == {seq[k] : k \in 1..Len(seq)}

\* (Variant: "in" on the text of the list, which finds substrings.)
In_substring(x, list) ==
    \/ x \in Range(list)
    \/ x = "VISp" /\ "VISpm" \in Range(list)

\* Python's "x in list".
In(x, list) == x \in Range(list)

\* A session table of up to MaxSessions rows.
SessInit ==
    /\ \E n \in 0..MaxSessions :
          \E col \in [1..n -> AcronymLists] :
              sessions = [k \in 1..n |->
                             [label |-> LabelAt(k - 1), acronyms |-> col[k]]]
    /\ session_list = <<>>
    /\ idx = 0
    /\ printed = <<>>
    /\ sess_pc = "begin"
    /\ PipeIdle /\ RegIdle /\ StatIdle /\ XcIdle

\* session_list = []
SessBegin ==
    /\ sess_pc = "begin"
    /\ session_list' = <<>>
    /\ idx' = 0
    /\ sess_pc' = "loop"
    /\ UNCHANGED <<sessions, printed>>
    /\ UNCHANGED notSess

\* One pass of "for idx, structure_list in enumerate(...)":
\* if visual_area in structure_list: session_list.append(sessions.index[idx])
SessStep ==
    /\ sess_pc = "loop"
    /\ idx < Len(sessions)
    /\ session_list' = IF In(visual_area, sessions[idx + 1].acronyms)
                       THEN Append(session_list, sessions[idx + 1].label)
                       ELSE session_list
    /\ idx' = idx + 1
    /\ UNCHANGED <<sessions, printed, sess_pc>>
    /\ UNCHANGED notSess

\* The two print calls after the loop: the count and the list.
SessPrint ==
    /\ sess_pc = "loop"
    /\ idx = Len(sessions)
    /\ printed' = <<Len(session_list), session_list>>
    /\ sess_pc' = "done"
    /\ UNCHANGED <<sessions, session_list, idx>>
    /\ UNCHANGED notSess

SessNext ==
    \/ SessBegin
    \/ SessStep
    \/ SessPrint

SessSpec == SessInit /\ [][SessNext]_vars

\* ------------------------------------------------- the cross-correlation
MaxTrain == 3

MaxCount == 1

\* Rounding a number n/d up to an integer.
Ceil(q) == 0 - ((0 - q.n) \div q.d)

\* (Variant: the ends are whole numbers, -(L // 2) and L // 2.)
arange_whole_ends(start, stop) ==
    LET lo == 0 - ((0 - start.n) \div start.d)
        hi == stop.n \div stop.d
        n == IF hi > lo THEN hi - lo ELSE 0
    IN  [k \in 1..n |-> Q(lo + k - 1, 1)]

\* np.arange(start, stop, 1): ceil(stop - start) values start, start + 1, ...
arange(start, stop) ==
    LET len == Ceil(Sub(stop, start))
        n == IF len > 0 THEN len ELSE 0
    IN  [k \in 1..n |-> Add(start, Q(k - 1, 1))]

\* Entry l (0-based) of a sequence, 0 outside it.
At0(seq, l) == IF l >= 0 /\ l < Len(seq) THEN seq[l + 1] ELSE 0

RECURSIVE CorrSum(_, _, _, _)
CorrSum(x, y, shift, l) ==
    IF l < 0 THEN 0
    ELSE x[l + 1] * At0(y, l - shift) + CorrSum(x, y, shift, l - 1)

\* sp.signal.correlate(x, y) in its default mode 'full':
\* z[k] = sum over l of x[l] * y[l - k + N - 1], k = 0 .. len(x) + len(y) - 2,
\* N = max(len(x), len(y)).
correlate(x, y) ==
    LET N == Max(Len(x), Len(y))
        n == IF Len(x) > 0 /\ Len(y) > 0 THEN Len(x) + Len(y) - 1 ELSE 0
    IN  [k \in 1..n |-> CorrSum(x, y, (k - 1) - (N - 1), Len(x) - 1)]

\* Two columns of the same count array: spike trains of one length.
XcInit ==
    /\ \E n \in 1..MaxTrain :
          /\ spike_train_1_drift \in [1..n -> 0..MaxCount]
          /\ spike_train_2_drift \in [1..n -> 0..MaxCount]
    /\ xcorr_drift = <<>>
    /\ time_shift_drift = <<>>
    /\ plotted = <<>>
    /\ xc_pc = "correlate"
    /\ PipeIdle /\ RegIdle /\ StatIdle /\ SessIdle

\* xcorr_drift = sp.signal.correlate(spike_train_1_drift, spike_train_2_drift)
XcCorrelate ==
    /\ xc_pc = "correlate"
    /\ xcorr_drift' = correlate(spike_train_1_drift, spike_train_2_drift)
    /\ xc_pc' = "time_shift"
    /\ UNCHANGED <<spike_train_1_drift, spike_train_2_drift, time_shift_drift,
                   plotted>>
    /\ UNCHANGED notXc

\* time_shift_drift = np.arange(-len(xcorr_drift)/2, len(xcorr_drift)/2, 1)
XcTimeShift ==
    /\ xc_pc = "time_shift"
    /\ time_shift_drift' = arange(Q(0 - Len(xcorr_drift), 2), Q(Len(xcorr_drift), 2))
    /\ xc_pc' = "plot"
    /\ UNCHANGED <<spike_train_1_drift, spike_train_2_drift, xcorr_drift,
                   plotted>>
    /\ UNCHANGED notXc

\* plt.plot(time_shift_drift, xcorr_drift): the points drawn, or the
\* ValueError of matplotlib for x and y of different lengths.
XcPlot ==
    /\ xc_pc = "plot"
    /\ IF Len(time_shift_drift) = Len(xcorr_drift)
       THEN /\ plotted' = [k \in 1..Len(xcorr_drift) |->
                              [x |-> time_shift_drift[k], y |-> xcorr_drift[k]]]
            /\ xc_pc' = "done"
       ELSE /\ plotted' = <<>>
            /\ xc_pc' = "ValueError"
    /\ UNCHANGED <<spike_train_1_drift, spike_train_2_drift, xcorr_drift,
                   time_shift_drift>>
    /\ UNCHANGED notXc

XcNext ==
    \/ XcCorrelate
    \/ XcTimeShift
    \/ XcPlot

XcSpec == XcInit /\ [][XcNext]_vars

\* ------------------------------------------------------------ properties
Cells == 0..(num_cells - 1)

NonEmpty(mask) == mask # {}

AllNonEmpty == \A a \in DOMAIN rois : NonEmpty(rois[a])

\* The distance double loop has finished.
DistanceBuilt == pc \in {"step8", "step9", "done"}

\* The flattening of Step 8 has run.
Flattened == pc \in {"step9", "done"}

\* C1: when every ROI mask is non-empty, the distance matrix built by the
\* double loop is symmetric: distance[a][b] == distance[b][a] for all a, b.
C1_Symmetric ==
    (DistanceBuilt /\ AllNonEmpty) =>
        \A a \in Cells : \A b \in Cells : NumEq(distance[a][b], distance[b][a])

\* A finished matrix of three non-empty ROIs whose centroids differ and are
\* off the line row = column.
C1_Witness ==
    /\ DistanceBuilt /\ AllNonEmpty /\ num_cells = 3
    /\ \E a \in Cells : \E b \in Cells :
          /\ a # b
          /\ distance[a][b] # Zero
          /\ loc_x[a] # loc_y[a]
          /\ loc_x[a] # loc_x[b]

\* C2: when every ROI mask is non-empty, the distance matrix has a zero
\* diagonal: distance[a][a] == 0 for all a.
C2_ZeroDiagonal ==
    (DistanceBuilt /\ AllNonEmpty) =>
        \A a \in Cells : NumEq(distance[a][a], Zero)

\* A finished matrix with a ROI whose centroid is not at the origin, so that
\* its diagonal entry is zero only because the two operands cancel.
C2_Witness ==
    /\ DistanceBuilt /\ AllNonEmpty /\ num_cells >= 2
    /\ \E a \in Cells : loc_x[a] # Zero /\ loc_y[a] # Zero /\ distance[a][a] = Zero

\* The test matrices M1[a][b] = a*n + b and M2[a][b] = 100 + a*n + b.
M1(n) == [a \in 0..(n - 1) |-> [b \in 0..(n - 1) |-> a * n + b]]

M2(n) == [a \in 0..(n - 1) |-> [b \in 0..(n - 1) |-> 100 + a * n + b]]

\* C3: the flattened distances and the flattened signal correlations are
\* index-paired: position q of each comes from the same ROI pair
\* (inds[0][q], inds[1][q]); linregress and pearsonr both receive such a
\* pair of sequences; and flattening M1 and M2 with the same index set gives
\* sequences that differ by 100 at every position.
C3_IndexPaired ==
    /\ Flattened =>
          /\ Len(inds[0]) = Len(distance_vector)
          /\ Len(inds[1]) = Len(distance_vector)
          /\ \A q \in 1..Len(distance_vector) :
                distance_vector[q] = distance[inds[0][q]][inds[1][q]]
          /\ LET flat1 == index2(M1(num_cells), inds)
                 flat2 == index2(M2(num_cells), inds)
             IN  /\ Len(flat1) = Len(flat2)
                 /\ \A q \in 1..Len(flat1) :
                       /\ flat2[q] - flat1[q] = 100
                       /\ flat1[q] = inds[0][q] * num_cells + inds[1][q]
    /\ pc = "done" =>
          /\ Len(lr_x) = Len(inds[0]) /\ Len(lr_y) = Len(inds[0])
          /\ Len(pr_x) = Len(inds[0]) /\ Len(pr_y) = Len(inds[0])
          /\ \A q \in 1..Len(inds[0]) :
                LET a == inds[0][q]
                    b == inds[1][q]
                IN  /\ lr_x[q] = distance[a][b] /\ lr_y[q] = sc[a][b]
                    /\ pr_x[q] = distance[a][b] /\ pr_y[q] = sc[a][b]

\* The regression has received three pairs whose distances differ and whose
\* signal correlations differ.
C3_Witness ==
    /\ pc = "done" /\ num_cells = 3 /\ Len(lr_y) = 3
    /\ lr_y[1] # lr_y[2] /\ lr_y[2] # lr_y[3]
    /\ lr_x[1] # lr_x[2]

\* C4: for N >= 2 the flattening with k = 1 yields exactly N(N-1)/2 values.
C4_Length ==
    (Flattened /\ num_cells >= 2) =>
        /\ 2 * Len(distance_vector) = num_cells * (num_cells - 1)
        /\ Len(inds[0]) = Len(distance_vector)
        /\ Len(inds[1]) = Len(distance_vector)

\* Three ROIs flattened to three values.
C4_Witness == Flattened /\ num_cells = 3 /\ Len(distance_vector) = 3

\* Position (r1, c1) precedes (r2, c2) in row-major order.
RowMajorBefore(r1, c1, r2, c2) == r1 < r2 \/ (r1 = r2 /\ c1 < c2)

C6_EachPairOnce ==
    Flattened =>
        /\ \A q \in 1..Len(inds[0]) : inds[0][q] # inds[1][q]
        /\ \A a \in Cells : \A b \in Cells :
              a < b =>
                 Cardinality({q \in 1..Len(inds[0]) :
                                {inds[0][q], inds[1][q]} = {a, b}}) = 1

\* Three ROIs, the pair {1, 2} among the flattened pairs.
C6_Witness ==
    /\ Flattened /\ num_cells = 3
    /\ \E q \in 1..Len(inds[0]) : {inds[0][q], inds[1][q]} = {1, 2}

\* The loop has stored the centroid of ROI a.
CentroidStored(a) ==
    \/ pc = "centroids" /\ a < i
    \/ pc \in {"distances", "step8", "step9", "done"}

\* The sum of coordinate t (1: row, 2: column) over the pixels of S.
RECURSIVE CoordSum(_, _)
CoordSum(S, t) ==
    IF S = {} THEN 0
    ELSE LET p == CHOOSE x \in S : TRUE
         IN  p[t] + CoordSum(S \ {p}, t)

\* v is the rational total / count.
IsQuotient(v, total, count) == v.k = "q" /\ v.n * count = v.d * total

\* C7: for a mask with at least one true pixel, loc_x[a] is the mean of the
\* column indices of its true pixels and loc_y[a] the mean of their row
\* indices.
C7_Centroid ==
    \A a \in DOMAIN rois :
        (CentroidStored(a) /\ NonEmpty(rois[a])) =>
            /\ IsQuotient(loc_x[a], CoordSum(rois[a], 2), Cardinality(rois[a]))
            /\ IsQuotient(loc_y[a], CoordSum(rois[a], 1), Cardinality(rois[a]))

\* A stored centroid of a mask of several pixels whose column mean is not a
\* whole number and differs from its row mean.
C7_Witness ==
    \E a \in DOMAIN rois :
        /\ CentroidStored(a) /\ Cardinality(rois[a]) >= 2
        /\ loc_x[a].k = "q" /\ loc_x[a].d > 1
        /\ loc_x[a] # loc_y[a]

Whole(x) == [k |-> "q", n |-> x, d |-> 1]

\* The masks {(0,0)}, {(0,3)}, {(4,0)} (row, column).
TriangleMasks == 0 :> {<<0, 0>>} @@ 1 :> {<<0, 3>>} @@ 2 :> {<<4, 0>>}

\* C8: for the masks {(0,0)}, {(0,3)}, {(4,0)} the centroids (row, column)
\* are (0,0), (0,3), (4,0) and the distance matrix is
\* [[0,3,4],[3,0,5],[4,5,0]].
C8_Triangle ==
    (DistanceBuilt /\ rois = TriangleMasks) =>
        /\ loc_y = (0 :> Whole(0) @@ 1 :> Whole(0) @@ 2 :> Whole(4))
        /\ loc_x = (0 :> Whole(0) @@ 1 :> Whole(3) @@ 2 :> Whole(0))
        /\ distance = (0 :> (0 :> Whole(0) @@ 1 :> Whole(3) @@ 2 :> Whole(4)) @@
                       1 :> (0 :> Whole(3) @@ 1 :> Whole(0) @@ 2 :> Whole(5)) @@
                       2 :> (0 :> Whole(4) @@ 1 :> Whole(5) @@ 2 :> Whole(0)))

\* The distance matrix of the three masks has been built.
C8_Witness == DistanceBuilt /\ rois = TriangleMasks /\ num_cells = 3

\* The square of a number, and whether it is >= 0.
Square(v) == IF v.k = "sqrt" THEN [k |-> "q", n |-> v.n, d |-> v.d] ELSE Pow2(v)

NonNegative(v) == v.k = "sqrt" \/ (v.k = "q" /\ v.n >= 0)

\* C9: entry (a, b) of the distance matrix is the Euclidean distance between
\* centroid a and centroid b (both defined): it is non-negative and its
\* square is (loc_x[a]-loc_x[b])^2 + (loc_y[a]-loc_y[b])^2.
C9_Euclidean ==
    DistanceBuilt =>
        \A a \in Cells : \A b \in Cells :
            (NonEmpty(rois[a]) /\ NonEmpty(rois[b])) =>
                /\ NonNegative(distance[a][b])
                /\ Square(distance[a][b]) =
                       Add(Pow2(Sub(loc_x[a], loc_x[b])), Pow2(Sub(loc_y[a], loc_y[b])))

\* A built matrix with an irrational entry between two centroids that differ
\* in both coordinates.
C9_Witness ==
    /\ DistanceBuilt
    /\ \E a \in Cells : \E b \in Cells :
          /\ distance[a][b].k = "sqrt"
          /\ loc_x[a] # loc_x[b] /\ loc_y[a] # loc_y[b]

SomeEmptyMask == \E a \in DOMAIN rois : rois[a] = {}

\* C10 as claimed: with a mask that has no true pixel, centroid extraction
\* fails: it stores no NaN centroid and the run never reaches the distance
\* computation.
C10_EmptyMaskRaises ==
    SomeEmptyMask =>
        /\ pc \notin {"distances", "step8", "step9", "done"}
        /\ \A a \in DOMAIN rois :
              CentroidStored(a) => (~IsNaN(loc_x[a]) /\ ~IsNaN(loc_y[a]))

\* C10 as the code behaves: a mask with no true pixel raises nothing; its
\* centroid is stored as NaN in both coordinates and the centroid loop goes
\* on to the next ROI or to the distance computation.
C10_EmptyMaskSilentNaN ==
    /\ \A a \in DOMAIN rois :
          (CentroidStored(a) /\ rois[a] = {}) => (IsNaN(loc_x[a]) /\ IsNaN(loc_y[a]))
    /\ (pc = "centroids" /\ SomeEmptyMask) => (CentroidLoopGoesOn \/ CentroidLoopOver)

\* The distance loop runs with the NaN centroid of an empty mask.
C10_Witness ==
    /\ pc = "distances"
    /\ \E a \in DOMAIN rois : rois[a] = {} /\ IsNaN(loc_x[a]) /\ IsNaN(loc_y[a])

\* The centroid coordinate t (1: row, 2: column) of a non-empty mask, and the
\* squared distance between the centroids of two non-empty masks.
MaskCentroid(S, t) == Q(CoordSum(S, t), Cardinality(S))

MaskDistSq(S, T) ==
    Add(Pow2(Sub(MaskCentroid(S, 1), MaskCentroid(T, 1))),
        Pow2(Sub(MaskCentroid(S, 2), MaskCentroid(T, 2))))

\* C11: a mask k with no true pixel raises no error; its centroid is NaN,
\* and after the distance loop every entry of row k and of column k
\* (distance[k][k] included) is NaN, while every entry between two ROIs with
\* non-empty masks is the distance of their own centroids, whatever the
\* other masks are.
C11_EmptyMaskRowColumnNaN ==
    DistanceBuilt =>
        /\ \A k \in Cells :
              rois[k] = {} =>
                 /\ IsNaN(loc_x[k]) /\ IsNaN(loc_y[k])
                 /\ \A a \in Cells : IsNaN(distance[k][a]) /\ IsNaN(distance[a][k])
        /\ \A a \in Cells : \A b \in Cells :
              (NonEmpty(rois[a]) /\ NonEmpty(rois[b])) =>
                 /\ ~IsNaN(distance[a][b])
                 /\ Square(distance[a][b]) = MaskDistSq(rois[a], rois[b])

\* Three ROIs, exactly one of them with an empty mask, the two others at a
\* distance that is not zero.
C11_Witness ==
    /\ DistanceBuilt /\ num_cells = 3
    /\ rois[1] = {} /\ NonEmpty(rois[0]) /\ NonEmpty(rois[2])
    /\ IsNaN(distance[1][1]) /\ IsNaN(distance[0][1])
    /\ ~IsNaN(distance[0][2]) /\ distance[0][2] # Zero

\* C14: no stage modifies the output of an earlier stage: no step changes
\* the masks or the signal correlations, the distance loop and the later
\* steps leave loc_x and loc_y alone, and the flattening and the
\* regression / correlation step leave the distance matrix alone.
C14_EarlierOutputsKept ==
    [][/\ rois' = rois
       /\ sc' = sc
       /\ pc \in {"distances", "step8", "step9"} => (loc_x' = loc_x /\ loc_y' = loc_y)
       /\ pc \in {"step8", "step9"} => distance' = distance
       /\ pc = "step9" => (inds' = inds /\ distance_vector' = distance_vector)]_vars

\* All four stages have run on three ROIs with a distance matrix whose lower
\* triangle is not zero.
C14_Witness ==
    /\ pc = "done" /\ num_cells = 3 /\ AllNonEmpty
    /\ distance[1][0] # Zero /\ distance[2][1] # Zero
    /\ Len(lr_x) = 3

\* The number of steps left before the notebook position "done".
NumRois == Cardinality(DOMAIN rois)

StepsLeft ==
    CASE pc = "step6" -> NumRois + NumRois * NumRois + 5
      [] pc = "centroids" -> (num_cells - i) + num_cells * num_cells + 4
      [] pc = "distances" -> (num_cells * num_cells - (i * num_cells + j)) + 3
      [] pc = "step8" -> 2
      [] pc = "step9" -> 1
      [] OTHER -> 0

\* The measure is never negative, a loop position always has the guard of
\* its next step or of its exit true, and a finished matrix holds a zero only
\* between coinciding centroids.
C18_State ==
    /\ StepsLeft >= 0
    /\ pc = "centroids" => (CentroidLoopGoesOn \/ CentroidLoopOver)
    /\ pc = "distances" => ((i < num_cells /\ j < num_cells) \/ (i = num_cells /\ j = 0))
    /\ DistanceBuilt =>
          \A a \in Cells : \A b \in Cells :
              distance[a][b] = Zero =>
                 /\ ~IsNaN(loc_x[a]) /\ ~IsNaN(loc_y[a])
                 /\ loc_x[a] = loc_x[b] /\ loc_y[a] = loc_y[b]

\* Every step lowers the measure by one; the distance loop starts from a
\* zero matrix at position (0, 0), writes at its counters only, advances the
\* row-major position by one and leaves at position N*N.
C18_Step ==
    /\ StepsLeft' = StepsLeft - 1
    /\ (pc = "centroids" /\ pc' = "distances") =>
          (i' = 0 /\ j' = 0 /\ distance' = zeros2(num_cells))
    /\ (pc = "distances" /\ pc' = "distances") =>
          /\ i' * num_cells + j' = i * num_cells + j + 1
          /\ \A a \in Cells : \A b \in Cells :
                (a # i \/ b # j) => distance'[a][b] = distance[a][b]
    /\ (pc = "distances" /\ pc' = "step8") =>
          i * num_cells + j = num_cells * num_cells

\* C18: for every N >= 0 the centroid loop and the distance double loop
\* terminate (the number of steps left is never negative and every step
\* lowers it by one); the distance loop assigns the entry at the loop
\* counters only, the counters go through the N*N positions one by one in
\* row-major order, and no entry of the result is still the initial zero
\* unless the two centroids coincide.
C18_LoopsTerminate == []C18_State /\ [][C18_Step]_vars

\* A finished matrix of three ROIs with a zero off the diagonal (two equal
\* centroids) and a non-zero entry below the diagonal.
C18_Witness ==
    /\ DistanceBuilt /\ num_cells = 3 /\ AllNonEmpty
    /\ distance[0][1] = Zero /\ distance[2][0] # Zero

\* --------------------------------------- properties of the association step
\* linregress has returned or raised.
LinregressOver == reg_pc \in {"pearsonr", "raised", "done"}

\* At least two values, all the same.
ZeroVariance(s) == Len(s) >= 2 /\ IsConstant(s)

\* C12 as claimed: an input sequence with zero variance makes the step fail
\* with DegenerateInputError, and no slope or coefficient is returned.
C12_DegenerateRaises ==
    (LinregressOver /\ (ZeroVariance(reg_x) \/ ZeroVariance(reg_y))) =>
        /\ raised = "DegenerateInputError"
        /\ IsNaN(slope) /\ IsNaN(r_value)

\* C12 as the code behaves: no DegenerateInputError exists.  For a y without
\* variance and an x with variance linregress raises nothing and returns
\* slope 0, r 0 and the intercept mean(y), and pearsonr then returns NaN;
\* for an x without variance linregress raises ValueError or returns a NaN
\* slope.
C12_ConstantInputOutcome ==
    /\ raised # "DegenerateInputError"
    /\ (LinregressOver /\ ZeroVariance(reg_y) /\ ~IsConstant(reg_x)) =>
          /\ raised = ""
          /\ slope = Zero /\ r_value = Zero /\ intercept = reg_y[1]
          /\ p_value = "one"
          /\ reg_pc = "done" => IsNaN(pearsons_r)
    /\ (LinregressOver /\ ZeroVariance(reg_x)) =>
          (raised = "ValueError" \/ (raised = "" /\ IsNaN(slope)))

Ints(s) == [q \in 1..Len(s) |-> Q(s[q], 1)]

\* y = [5,5,5,5,5] with x = [1,2,3,4,5]: both routines have returned.
C12_Witness ==
    /\ reg_pc = "done" /\ raised = ""
    /\ reg_x = Ints(<<1, 2, 3, 4, 5>>) /\ reg_y = Ints(<<5, 5, 5, 5, 5>>)
    /\ slope = Zero /\ IsNaN(pearsons_r)

\* Integer sums of the inputs (whole numbers in this model).
RECURSIVE SumProd(_, _)
SumProd(s, t) == IF s = <<>> THEN 0 ELSE Head(s).n * Head(t).n + SumProd(Tail(s), Tail(t))

Ones(s) == [q \in 1..Len(s) |-> Q(1, 1)]

\* n*Sum(st) - Sum(s)*Sum(t): n*n times the covariance.
Sxy(s, t) == Len(s) * SumProd(s, t) - SumProd(s, Ones(s)) * SumProd(t, Ones(t))

\* The square of a coefficient.
CoeffSquare(v) == IF v.k = "q" THEN Pow2(v) ELSE [k |-> "q", n |-> v.n, d |-> v.d]

Positive(v) == v.k = "sqrt" \/ (v.k = "q" /\ v.n > 0)

\* C13: for x = [1,2,3,4,5], y = [2,4,6,8,10] the step returns slope 2,
\* intercept 0, r = 1 and a p-value near 0; in general the results are those
\* of ordinary least squares: slope = Sxy/Sxx,
\* intercept = mean(y) - slope*mean(x), r^2 = Sxy^2/(Sxx*Syy), r of the sign
\* of Sxy.
C13_LeastSquares ==
    /\ (LinregressOver /\ reg_x = Ints(<<1, 2, 3, 4, 5>>)
                       /\ reg_y = Ints(<<2, 4, 6, 8, 10>>)) =>
          /\ raised = ""
          /\ slope = Q(2, 1) /\ intercept = Zero /\ r_value = Q(1, 1)
          /\ p_value = "near_zero"
          /\ reg_pc = "done" => pearsons_r = Q(1, 1)
    /\ (LinregressOver /\ raised = "" /\ Len(reg_x) >= 2 /\ ~IsConstant(reg_x)) =>
          LET n == Len(reg_x)
              sxx == Sxy(reg_x, reg_x)
              sxy == Sxy(reg_x, reg_y)
              syy == Sxy(reg_y, reg_y)
              sx == SumProd(reg_x, Ones(reg_x))
              sy == SumProd(reg_y, Ones(reg_y))
          IN  /\ slope.k = "q" /\ slope.n * sxx = slope.d * sxy
              /\ intercept.k = "q"
              /\ intercept.n * n * sxx = intercept.d * (sy * sxx - sxy * sx)
              /\ syy # 0 =>
                    /\ CoeffSquare(r_value) = Q(sxy * sxy, sxx * syy)
                    /\ Positive(r_value) <=> sxy > 0

\* The perfectly correlated input has gone through both routines.
C13_Witness ==
    /\ reg_pc = "done"
    /\ reg_x = Ints(<<1, 2, 3, 4, 5>>) /\ reg_y = Ints(<<2, 4, 6, 8, 10>>)
    /\ slope = Q(2, 1)

\* ------------------------------------------ properties of the statistics cells
SubplotDrawn(t) == t \in DOMAIN ax_hist /\ ax_hist[t] # <<>>

\* The means of a list are NumMeans means of samples of one size.
AllOfSize(sizes, size) == sizes = <<[size |-> size, count |-> NumMeans]>>

SampleSizes == <<3, 9, 27, 81, 243>>

\* C16: every histogram of the central-limit loop is drawn from exactly
\* 10,000 sample means, all of samples of size 3^(a+1), that is 3, 9, 27, 81,
\* 243; the list holds nothing else when a histogram is about to be drawn,
\* and it is empty between passes and when the loop has ended.
C16_HistogramPerSize ==
    /\ \A t \in DOMAIN ax_hist :
          /\ t < ax_a <=> SubplotDrawn(t)
          /\ SubplotDrawn(t) =>
                /\ Len(ax_hist[t].data) = NumMeans
                /\ AllOfSize(ax_hist[t].of, 3 ^ (t + 1))
                /\ AllOfSize(ax_hist[t].of, SampleSizes[t + 1])
                /\ ax_title[t].sample_size = SampleSizes[t + 1]
    /\ stat_pc = "clt_plot" =>
          /\ Len(sample_means) = NumMeans
          /\ AllOfSize(means_sizes, 3 ^ (ax_a + 1))
    /\ stat_pc = "clt_loop" => (sample_means = <<>> /\ means_sizes = <<>>)
    /\ (stat_pc = "done" /\ ax_hist # <<>>) =>
          /\ sample_means = <<>>
          /\ \A t \in 0..(NumSubplots - 1) : SubplotDrawn(t)

\* The loop has ended with five histograms, the first of means of samples of
\* size 3 and the last of means of samples of size 243.
C16_Witness ==
    /\ stat_pc = "done"
    /\ SubplotDrawn(0) /\ SubplotDrawn(4)
    /\ Len(ax_hist[0].data) = NumMeans /\ ax_hist[0].of[1].size = 3
    /\ Len(ax_hist[4].data) = NumMeans /\ ax_hist[4].of[1].size = 243

ArrayMean(arr) == Q(arr.sum, arr.size)

SkewPlotted == stat_pc = "done" /\ axvlines # <<>>

\* C17: in the skewed-distribution plot the orange line stands at the mean
\* of skewed_sample (100 points) and the blue line at the mean of skewed_pop
\* (10,000 points), the colours of the 'Sample' and 'Population' histograms.
C17_LinesAtOwnMeans ==
    SkewPlotted =>
        /\ skewed_pop.size = pop_size /\ skewed_sample.size = skew_sample_size
        /\ \A k \in 1..Len(axvlines) :
              /\ axvlines[k].color = "orange" =>
                    NumEq(axvlines[k].at, ArrayMean(skewed_sample))
              /\ axvlines[k].color = "blue" =>
                    NumEq(axvlines[k].at, ArrayMean(skewed_pop))
        /\ \A k \in 1..Len(hists) :
              /\ legend[k] = "Sample" => hists[k].data = skewed_sample
              /\ legend[k] = "Population" => hists[k].data = skewed_pop

\* C15: the one-sample t-test is made on the sample drawn around mean 3 with
\* the hypothesised population mean 3 of the notebook's text.
C15_TestsStatedNull ==
    ttest # <<>> =>
        /\ ttest[1].a = sample_pop
        /\ sample_mean = stated_null_mean
        /\ ttest[1].popmean = stated_null_mean

\* ------------------------------------- properties of the session selection
Matching == {k \in 1..Len(sessions) : visual_area \in Range(sessions[k].acronyms)}

\* The rows of the table that carry a label.
RowsOf(label) == {k \in 1..Len(sessions) : sessions[k].label = label}

\* C19: after the session-selection loop session_list holds exactly the
\* index labels of the rows whose acronym list contains visual_area, each
\* once and in table order, and the printed count is the number of such rows.
C19_SelectedSessions ==
    sess_pc = "done" =>
        /\ Len(session_list) = Cardinality(Matching)
        /\ \A k \in Matching : \E p \in 1..Len(session_list) :
              session_list[p] = sessions[k].label
        /\ \A p \in 1..Len(session_list) :
              \E k \in Matching : RowsOf(session_list[p]) = {k}
        /\ \A p \in 1..Len(session_list) : \A q \in 1..Len(session_list) :
              p < q => \A k \in RowsOf(session_list[p]) :
                          \A m \in RowsOf(session_list[q]) : k < m
        /\ printed[1] = Cardinality(Matching)
        /\ printed[2] = session_list

\* Three rows, the first and the last selected, the middle one holding
\* "VISpm" but not "VISp".
C19_Witness ==
    /\ sess_pc = "done"
    /\ Len(sessions) = 3
    /\ Matching = {1, 3}
    /\ "VISpm" \in Range(sessions[2].acronyms)
    /\ session_list = <<LabelAt(0), LabelAt(2)>>

\* ------------------------------------- properties of the cross-correlation
\* C20: for two spike trains of one length n >= 1 the time-shift axis has
\* exactly L = len(xcorr_drift) = 2n - 1 entries, consecutive entries differ
\* by 1, and the plot pairs entry k of the axis with entry k of xcorr_drift.
C20_AxisMatches ==
    /\ xc_pc \in {"time_shift", "plot", "done", "ValueError"} =>
          Len(xcorr_drift) = 2 * Len(spike_train_1_drift) - 1
    /\ xc_pc \in {"plot", "done", "ValueError"} =>
          /\ Len(time_shift_drift) = Len(xcorr_drift)
          /\ \A k \in 1..(Len(time_shift_drift) - 1) :
                NumEq(Sub(time_shift_drift[k + 1], time_shift_drift[k]), Q(1, 1))
    /\ xc_pc # "ValueError"
    /\ xc_pc = "done" =>
          /\ Len(plotted) = Len(xcorr_drift)
          /\ \A k \in 1..Len(plotted) :
                /\ plotted[k].x = time_shift_drift[k]
                /\ plotted[k].y = xcorr_drift[k]

\* Two trains of three bins each, plotted: five points.
C20_Witness ==
    /\ xc_pc = "done"
    /\ Len(spike_train_1_drift) = 3 /\ Len(spike_train_2_drift) = 3
    /\ Len(plotted) = 5
    /\ \E k \in 1..5 : xcorr_drift[k] > 0

\* The term of the cross-correlation at lag d, from its definition: the sum
\* of spike_train_1_drift[l] * spike_train_2_drift[l - d] over the bins l
\* (0-based) for which both exist.
LagTerm(d) ==
    LET n == Len(spike_train_1_drift)
        Bins == {l \in 0..(n - 1) : l - d >= 0 /\ l - d < n}
        RECURSIVE Total(_)
        Total(B) == IF B = {} THEN 0
                    ELSE LET l == CHOOSE m \in B : TRUE
                         IN  spike_train_1_drift[l + 1] * spike_train_2_drift[l - d + 1]
                             + Total(B \ {l})
    IN  Total(Bins)

Lags == (1 - Len(spike_train_1_drift))..(Len(spike_train_1_drift) - 1)

\* The position (1-based) of the term at lag d among the 2n - 1 outputs.
LagPosition(d) == d + Len(spike_train_1_drift)

\* C21: in the plot the zero-lag term (index n - 1 of the 2n - 1 outputs) is
\* drawn at time shift 0, and the term at every lag d in -(n-1)..(n-1) is
\* drawn at time shift d.
C21_LagAtTimeShift ==
    xc_pc = "done" =>
        \A d \in Lags :
            /\ plotted[LagPosition(d)].y = LagTerm(d)
            /\ NumEq(plotted[LagPosition(d)].x, Q(d, 1))

\* What the plot shows: the term at lag d is drawn at d - 1/2, so the
\* zero-lag term stands at -1/2 and no point of the axis is a whole number.
C21_ShiftedByHalf ==
    xc_pc = "done" =>
        \A d \in Lags :
            /\ plotted[LagPosition(d)].y = LagTerm(d)
            /\ NumEq(plotted[LagPosition(d)].x, Q(2 * d - 1, 2))

====
